---- MODULE Spec2Model ----
(***************************************************************************)
(* Gesture engine of react-swipeable-list: the class component             *)
(* SwipeableListItem (drag tracking, direction classification, throttled   *)
(* position update, end-of-gesture resolution) and the SwipeableList       *)
(* container that clones its threshold props onto the items.               *)
(*                                                                         *)
(* Conventions                                                             *)
(*  - an optional JS value is a sequence: <<>> is undefined, <<v>> is v;   *)
(*  - the trigger ratio `threshold` is a fraction <<num, den>>;            *)
(*  - style.opacity is kept in hundredths (37 is "0.37"), "" is Unset;     *)
(*  - style.transform is the translateX pixel count, 0 when never set;     *)
(*  - Date.now() - this.startTime is the variable elapsed (milliseconds);  *)
(*  - handlers are operators from an instance record to an instance        *)
(*    record; an action is one DOM event dispatch (every listener the      *)
(*    event reaches, in order) or one animation-frame callback.            *)
(***************************************************************************)
EXTENDS Integers, Sequences, FiniteSets, TLC

\* ------------------------------------------------------------------ bounds
\* time is advanced in steps of TickMs until it has passed MaxElapsed
TickMs == 17
MaxElapsed == 16
\* the history counter of onSwipeStart calls per gesture saturates here
MaxCount == 2
\* item widths 0..MaxWidth and offsets -MaxOffset..MaxOffset of the refresh
\* examined on its own
MaxWidth == 8
MaxOffset == 10

\* ----------------------------------------------------------- JS helpers
Undefined == <<>>
Some(v) == <<v>>
IsDefined(o) == o # <<>>
Val(o) == o[1]

Abs(n) == IF n < 0 THEN 0 - n ELSE n
Max(a, b) == IF a > b THEN a ELSE b

\* Math.round of the non-negative rational p / q (q > 0): halves go up
Round(p, q) == (2 * p + q) \div (2 * q)

\* ------------------------------------------------------ program constants
DragDirection == [UP |-> 1, DOWN |-> 2, LEFT |-> 3, RIGHT |-> 4, UNKNOWN |-> 5]

ActionAnimations == [RETURN |-> "Symbol(Return)",
                     REMOVE |-> "Symbol(Remove)",
                     NONE   |-> "Symbol(None)"]

\* the numeric enum the actionAnimation prop is typed with: its members are
\* the numbers 0, 1 and 2, none of which is identical to a symbol of
\* ActionAnimations
ActionAnimationsEnum == [RETURN |-> "0", REMOVE |-> "1", NONE |-> "2"]

\* FPS_INTERVAL = 1000 / 60 as the fraction FpsNum / FpsDen
FpsNum == 1000
FpsDen == 60

DefaultStartThreshold == 10
DefaultThreshold == <<1, 2>>
OpacityDivisor == 100

Unset == 0 - 1
NoPoint == [x |-> 0 - 1, y |-> 0 - 1]

ClassContent == "swipeable-list-item__content"
ClassContentReturn == "swipeable-list-item__content swipeable-list-item__content--return"
ClassContentRemove == "swipeable-list-item__content swipeable-list-item__content--remove"
ClassLeft == "swipeable-list-item__content-left"
ClassLeftReturn == "swipeable-list-item__content-left swipeable-list-item__content-left--return"
ClassRight == "swipeable-list-item__content-right"
ClassRightReturn == "swipeable-list-item__content-right swipeable-list-item__content-right--return"

\* ------------------------------------------------------------ input sets
\* pointer positions (clientX, clientY) of start and move events
StartPoints == {[x |-> 200, y |-> 50]}
\* horizontal travel of the move events, around the start thresholds (10, 15),
\* the trigger distances (10, 20), the item width (40) and full opacity (100)
Travels == {0 - 120, 0 - 21, 0 - 20, 0 - 11, 0, 10, 11, 21}
MovePoints ==
    {[x |-> 200 + d, y |-> 50] : d \in Travels}
    \cup {[x |-> 200, y |-> 61], [x |-> 200, y |-> 39], [x |-> 211, y |-> 58]}

SwipeAction(animation) == Some([action |-> TRUE, actionAnimation |-> animation])

\* the item configurations explored: a base with both actions, and the base
\* with one option changed at a time
BaseProps ==
    [blockSwipe |-> FALSE,
     swipeLeft |-> SwipeAction(Some(ActionAnimations.REMOVE)),
     swipeRight |-> SwipeAction(Undefined),
     scrollStartThreshold |-> Undefined,
     swipeStartThreshold |-> Undefined,
     threshold |-> Undefined,
     onSwipeStart |-> TRUE,
     onSwipeEnd |-> TRUE,
     onSwipeProgress |-> TRUE]

ItemConfigs ==
    {BaseProps,
     [BaseProps EXCEPT !.swipeLeft = Undefined],
     [BaseProps EXCEPT !.swipeRight = Undefined],
     [BaseProps EXCEPT !.swipeLeft = Undefined, !.swipeRight = Undefined],
     [BaseProps EXCEPT !.swipeLeft = SwipeAction(Some(ActionAnimations.NONE)),
                       !.swipeRight = SwipeAction(Some(ActionAnimations.REMOVE))],
     [BaseProps EXCEPT !.blockSwipe = TRUE],
     [BaseProps EXCEPT !.swipeStartThreshold = Some(15), !.threshold = Some(<<1, 4>>)],
     [BaseProps EXCEPT !.onSwipeStart = FALSE, !.onSwipeEnd = FALSE,
                       !.onSwipeProgress = FALSE]}

\* listElement.offsetWidth: an item laid out 40 pixels wide, and for the base
\* configuration also an item of width 0
Setups ==
    {[props |-> p, width |-> 40] : p \in ItemConfigs}
    \cup {[props |-> BaseProps, width |-> 0]}

NoFired == [onSwipeStart |-> 0, onSwipeEnd |-> 0, swipeLeftAction |-> 0,
            swipeRightAction |-> 0, onSwipeProgress |-> 0, thrown |-> FALSE,
            stopPropagation |-> FALSE, preventDefault |-> FALSE,
            dragEnds |-> <<>>, shown |-> "none", coalesced |-> 0,
            cancelled |-> FALSE, retried |-> FALSE, faded |-> "none",
            stale |-> FALSE]

VARIABLES
    listProps,      \* props of the enclosing SwipeableList, Undefined when the item stands alone
    ownProps,       \* props written on the SwipeableListItem element
    props,          \* this.props of the mounted item
    offsetWidth,    \* listElement.offsetWidth
    this,           \* instance fields, DOM nodes and listeners of the item
    elapsed,        \* Date.now() - this.startTime
    pointer,        \* the input stream in progress: "none", "mouse" or "touch"
    fired,          \* history of the last dispatch: callbacks invoked, event flags set,
                    \* uncaught TypeError, what each handleDragEnd call found on entry,
                    \* the panel a refresh selected, the scheduleUpdatePosition
                    \* calls that found a request pending, whether
                    \* cancelAnimationFrame was called, whether a move
                    \* classified a gesture that was gated before, the
                    \* panel whose opacity a refresh wrote with a value below 1,
                    \* and whether the frame callback found the offset changed
                    \* since its request
    progressArg,    \* argument of the last onSwipeProgress call, Unset before the first
    gestureStarts,  \* onSwipeStart calls since the last handleDragStart
    frameRequests,  \* callbacks handed to requestAnimationFrame and not yet run or cancelled
    sinceRefresh,   \* time since the last refresh that went through, Unset before the first
    moved,          \* a move handler has run since the last handleDragStart
    stale,          \* a move of this gesture has changed the offset since the pending
                    \* frame was requested
    gated,          \* the direction is still UNKNOWN after a move of this gesture
                    \* that left the start thresholds
    swipeOpen,      \* onSwipeStart has been called and onSwipeEnd not yet since
    item2,          \* a SwipeableListItem2 mounted with the same props: React state,
                    \* locals of the render whose handlers are registered, DOM
                    \* nodes, listeners and the history of its last dispatch
    lastOp          \* the last event dispatched

vars == <<listProps, ownProps, props, offsetWidth, this, elapsed, pointer,
          fired, progressArg, gestureStarts, frameRequests, sinceRefresh,
          moved, stale, gated, swipeOpen, item2, lastOp>>

\* --------------------------------------------------------- SwipeableList
\* React.cloneElement(child, config): every own key of config replaces the
\* child's prop of that name, an undefined value included
cloneElement(childProps, config) ==
    [k \in DOMAIN childProps |->
        IF k \in DOMAIN config THEN config[k] ELSE childProps[k]]

\* SwipeableList with element children: the props each child is mounted with
SwipeableList(list, childProps) ==
    cloneElement(childProps,
        [scrollStartThreshold |-> list.scrollStartThreshold,
         swipeStartThreshold  |-> list.swipeStartThreshold,
         threshold            |-> list.threshold])

\* ------------------------------------------------------ SwipeableListItem
\* the working record of one dispatch: the instance plus the effects so far
Ctx == [this |-> this, elapsed |-> elapsed, fired |-> NoFired,
        progressArg |-> progressArg, gestureStarts |-> gestureStarts,
        frameRequests |-> frameRequests, sinceRefresh |-> sinceRefresh,
        moved |-> moved, stale |-> stale, gated |-> gated,
        swipeOpen |-> swipeOpen]

\* the offset is not part of the reset
resetState_KeepsLeft(c) ==
    [c EXCEPT !.this.dragStartPoint = NoPoint,
              !.this.dragDirection = DragDirection.UNKNOWN,
              !.this.previousSwipeDistancePercent = 0]

resetState(c) ==
    [c EXCEPT !.this.dragStartPoint = NoPoint,
              !.this.dragDirection = DragDirection.UNKNOWN,
              !.this.left = 0,
              !.this.previousSwipeDistancePercent = 0]

\* half the configured distance already classifies
dragHorizontalDirectionThreshold_Halved ==
    (IF IsDefined(props.swipeStartThreshold) /\ Val(props.swipeStartThreshold) # 0
     THEN Val(props.swipeStartThreshold) ELSE DefaultStartThreshold) \div 2

\* this.props.swipeStartThreshold || 10
dragHorizontalDirectionThreshold ==
    IF IsDefined(props.swipeStartThreshold) /\ Val(props.swipeStartThreshold) # 0
    THEN Val(props.swipeStartThreshold) ELSE DefaultStartThreshold

\* this.props.scrollStartThreshold || 10
dragVerticalDirectionThreshold ==
    IF IsDefined(props.scrollStartThreshold) /\ Val(props.scrollStartThreshold) # 0
    THEN Val(props.scrollStartThreshold) ELSE DefaultStartThreshold

\* const { threshold = 0.5 } = props
threshold == IF IsDefined(props.threshold) THEN Val(props.threshold) ELSE DefaultThreshold

dragStartedWithinItem(c) ==
    c.this.dragStartPoint.x # 0 - 1 /\ c.this.dragStartPoint.y # 0 - 1

\* the blockSwipe prop is not looked at
isSwiping_IgnoresBlockSwipe(c) ==
    /\ dragStartedWithinItem(c)
    /\ c.this.dragDirection \in {DragDirection.LEFT, DragDirection.RIGHT}

isSwiping(c) ==
    LET horizontalDrag == \/ c.this.dragDirection = DragDirection.LEFT
                          \/ c.this.dragDirection = DragDirection.RIGHT
    IN  ~props.blockSwipe /\ dragStartedWithinItem(c) /\ horizontalDrag

\* a frame is requested whether or not one is pending
scheduleUpdatePosition_Unguarded(c) ==
    [c EXCEPT !.this.requestedAnimationFrame = TRUE,
              !.frameRequests = @ + 1]

scheduleUpdatePosition(c) ==
    IF c.this.requestedAnimationFrame THEN [c EXCEPT !.fired.coalesced = @ + 1]
    ELSE [c EXCEPT !.this.requestedAnimationFrame = TRUE,
                   !.frameRequests = @ + 1,
                   !.stale = FALSE]

\* a / b < tan(22.5 deg) = sqrt(2) - 1 for integers a >= 0, b >= 0
Shallow(a, b) == (a + b) * (a + b) < 2 * b * b

\* Math.round((8 * Math.atan2(dy, dx)) / (2 * Math.PI) + 8) % 8
Octant(dx, dy) ==
    IF dx = 0 /\ dy = 0 THEN 0
    ELSE IF Shallow(Abs(dy), Abs(dx)) THEN (IF dx > 0 THEN 0 ELSE 4)
    ELSE IF Shallow(Abs(dx), Abs(dy)) THEN (IF dy > 0 THEN 2 ELSE 6)
    ELSE IF dy > 0 THEN (IF dx > 0 THEN 1 ELSE 3)
    ELSE (IF dx > 0 THEN 7 ELSE 5)


Fire(c, name) == [c EXCEPT !.fired[name] = @ + 1]

\* the direction is classified again on every move
directionUnknown_Always(c) == TRUE

\* if (this.dragDirection === DragDirection.UNKNOWN)
directionUnknown(c) == c.this.dragDirection = DragDirection.UNKNOWN

\* the notification goes out for a vertical classification too
notifySwipeStart_AnyDirection(c) ==
    IF props.onSwipeStart /\ c.this.dragDirection # DragDirection.UNKNOWN
    THEN [Fire(c, "onSwipeStart") EXCEPT !.gestureStarts = IF @ < MaxCount THEN @ + 1 ELSE @,
                                         !.swipeOpen = TRUE]
    ELSE c

\* if (this.props.onSwipeStart && this.isSwiping()) this.props.onSwipeStart()
notifySwipeStart(c) ==
    IF props.onSwipeStart /\ isSwiping(c)
    THEN [Fire(c, "onSwipeStart") EXCEPT !.gestureStarts = IF @ < MaxCount THEN @ + 1 ELSE @,
                                         !.swipeOpen = TRUE]
    ELSE c

setDragDirection(c, x, y) ==
    IF ~directionUnknown(c) THEN c
    ELSE
    LET startX == c.this.dragStartPoint.x
        startY == c.this.dragStartPoint.y
        horizontalDistance == Abs(x - startX)
        verticalDistance == Abs(y - startY)
        octant == Octant(x - startX, y - startY)
        direction ==
            CASE octant = 0 ->
                    IF /\ c.this.contentRight # Undefined
                       /\ horizontalDistance > dragHorizontalDirectionThreshold
                    THEN DragDirection.RIGHT ELSE DragDirection.UNKNOWN
              [] octant \in {1, 2, 3} ->
                    IF verticalDistance > dragVerticalDirectionThreshold
                    THEN DragDirection.DOWN ELSE DragDirection.UNKNOWN
              [] octant = 4 ->
                    IF /\ c.this.contentLeft # Undefined
                       /\ horizontalDistance > dragHorizontalDirectionThreshold
                    THEN DragDirection.LEFT ELSE DragDirection.UNKNOWN
              [] octant \in {5, 6, 7} ->
                    IF verticalDistance > dragVerticalDirectionThreshold
                    THEN DragDirection.UP ELSE DragDirection.UNKNOWN
        c1 == [c EXCEPT !.this.dragDirection = direction,
                        !.gated = direction = DragDirection.UNKNOWN,
                        !.fired.retried = c.gated /\ direction # DragDirection.UNKNOWN]
    IN  IF /\ horizontalDistance <= dragHorizontalDirectionThreshold
           /\ verticalDistance <= dragVerticalDirectionThreshold
        THEN c
        ELSE notifySwipeStart(c1)

handleDragStart(c, clientX, clientY) ==
    LET c1 == resetState(c)
        c2 == [c1 EXCEPT !.this.dragStartPoint = [x |-> clientX, y |-> clientY],
                         !.this.listElement.className = ClassContent,
                         !.gestureStarts = 0,
                         !.moved = FALSE,
                         !.stale = FALSE,
                         !.gated = FALSE]
        c3 == IF c2.this.contentLeft # Undefined
              THEN [c2 EXCEPT !.this.contentLeft[1].className = ClassLeft] ELSE c2
        c4 == IF c3.this.contentRight # Undefined
              THEN [c3 EXCEPT !.this.contentRight[1].className = ClassRight] ELSE c3
        c5 == [c4 EXCEPT !.elapsed = 0]
    IN  scheduleUpdatePosition(c5)

\* the offset follows the pointer whether or not the item is swiping
swipeMove_Unguarded(c, clientX) ==
    scheduleUpdatePosition(
        [c EXCEPT !.fired.stopPropagation = TRUE,
                  !.fired.preventDefault = TRUE,
                  !.this.left = clientX - c.this.dragStartPoint.x])

\* the body that handleMouseMove and handleTouchMove share once the
\* direction has been looked at
swipeMove(c, clientX) ==
    IF isSwiping(c)
    THEN scheduleUpdatePosition(
            [c EXCEPT !.fired.stopPropagation = TRUE,
                      !.fired.preventDefault = TRUE,
                      !.this.left = clientX - c.this.dragStartPoint.x,
                      !.stale = @ \/ (/\ c.this.requestedAnimationFrame
                                      /\ c.this.left # clientX - c.this.dragStartPoint.x)])
    ELSE c

\* a move that arrives while a frame is requested is dropped
handleMouseMove_DropsWhilePending(c, clientX, clientY) ==
    IF dragStartedWithinItem(c) /\ ~c.this.requestedAnimationFrame
    THEN swipeMove(setDragDirection([c EXCEPT !.moved = TRUE], clientX, clientY),
                   clientX)
    ELSE c

handleMouseMove(c, clientX, clientY) ==
    IF dragStartedWithinItem(c)
    THEN swipeMove(setDragDirection([c EXCEPT !.moved = TRUE], clientX, clientY),
                   clientX)
    ELSE c

\* event.cancelable is not looked at
handleTouchMove_IgnoresCancelable(c, clientX, clientY, cancelable) ==
    IF dragStartedWithinItem(c)
    THEN swipeMove(setDragDirection([c EXCEPT !.moved = TRUE], clientX, clientY),
                   clientX)
    ELSE c

handleTouchMove(c, clientX, clientY, cancelable) ==
    IF dragStartedWithinItem(c)
    THEN LET c1 == setDragDirection([c EXCEPT !.moved = TRUE], clientX, clientY)
         IN  IF ~cancelable THEN c1 ELSE swipeMove(c1, clientX)
    ELSE c

playReturnAnimation(c) ==
    LET c1 == IF c.this.wrapper
              THEN [c EXCEPT !.this.listElement.className = ClassContentReturn,
                             !.this.listElement.transform = 0]
              ELSE c
        c2 == IF c1.this.contentLeft # Undefined
              THEN [c1 EXCEPT !.this.contentLeft[1].opacity = 0,
                              !.this.contentLeft[1].className = ClassLeftReturn]
              ELSE c1
    IN  IF c2.this.contentRight # Undefined
        THEN [c2 EXCEPT !.this.contentRight[1].opacity = 0,
                        !.this.contentRight[1].className = ClassRightReturn]
        ELSE c2

playRemoveAnimation(c, direction) ==
    IF ~c.this.wrapper THEN c
    ELSE
    [c EXCEPT !.this.listElement.className = ClassContentRemove,
              !.this.listElement.transform =
                  offsetWidth * (IF direction = DragDirection.LEFT THEN 0 - 1 ELSE 1)]

\* type is the optional actionAnimation of the triggered action
playActionAnimation(c, type, direction) ==
    IF ~c.this.wrapper THEN c
    ELSE IF type = Some(ActionAnimations.REMOVE) THEN playRemoveAnimation(c, direction)
    ELSE IF type = Some(ActionAnimations.NONE) THEN c
    ELSE playReturnAnimation(c)

handleSwipedLeft(c) ==
    IF IsDefined(props.swipeLeft) /\ Val(props.swipeLeft).action
    THEN Fire(c, "swipeLeftAction") ELSE c

handleSwipedRight(c) ==
    IF IsDefined(props.swipeRight) /\ Val(props.swipeRight).action
    THEN Fire(c, "swipeRightAction") ELSE c

\* the trigger distance itself already triggers
BeyondLeft_Inclusive(left, width, ratio) == left * ratio[2] <= 0 - (width * ratio[1])
BeyondRight_Inclusive(left, width, ratio) == left * ratio[2] >= width * ratio[1]

\* left < listElement.offsetWidth * threshold * -1
BeyondLeft(left, width, ratio) == left * ratio[2] < 0 - (width * ratio[1])
\* left > listElement.offsetWidth * threshold
BeyondRight(left, width, ratio) == left * ratio[2] > width * ratio[1]

\* reading swipeLeft.actionAnimation of an undefined swipeLeft is a TypeError:
\* the handler stops there and nothing after that point runs
Throw(c) == [c EXCEPT !.fired.thrown = TRUE]

\* history: the offset and direction a handleDragEnd call starts from
Entered(c) ==
    [c EXCEPT !.fired.dragEnds =
        Append(@, [left |-> c.this.left, dragDirection |-> c.this.dragDirection,
                   swiping |-> isSwiping(c), moved |-> c.moved])]

\* the release neither resets the gesture state nor plays the return animation
handleDragEnd_NoReset(c0) ==
    LET c == Entered(c0)
    IN  IF isSwiping(c) /\ props.onSwipeEnd
        THEN [Fire(c, "onSwipeEnd") EXCEPT !.swipeOpen = FALSE] ELSE c

handleDragEnd(c0) ==
    LET c == Entered(c0)
        left == c.this.left
        swiping == isSwiping(c)
        goLeft == swiping /\ c.this.wrapper /\ BeyondLeft(left, offsetWidth, threshold)
        goRight == /\ swiping /\ c.this.wrapper /\ ~goLeft
                   /\ BeyondRight(left, offsetWidth, threshold)
        actionTriggered == goLeft \/ goRight
        c1 == IF goLeft
              THEN handleSwipedLeft(playActionAnimation(c,
                       Val(props.swipeLeft).actionAnimation, DragDirection.LEFT))
              ELSE IF goRight
              THEN handleSwipedRight(playActionAnimation(c,
                       Val(props.swipeRight).actionAnimation, DragDirection.RIGHT))
              ELSE c
        c2 == IF swiping /\ props.onSwipeEnd
              THEN [Fire(c1, "onSwipeEnd") EXCEPT !.swipeOpen = FALSE] ELSE c1
        c3 == [resetState(c2) EXCEPT !.moved = FALSE, !.stale = FALSE,
                                     !.gated = FALSE]
    IN  IF goLeft /\ ~IsDefined(props.swipeLeft) THEN Throw(c)
        ELSE IF goRight /\ ~IsDefined(props.swipeRight) THEN Throw(c)
        ELSE IF ~actionTriggered THEN playReturnAnimation(c3) ELSE c3

handleDragStartMouse(c, clientX, clientY) ==
    handleDragStart(
        [c EXCEPT !.this.windowListeners = @ \cup {"mouseup", "mousemove"},
                  !.this.wrapperListeners = @ \cup {"mouseup", "mousemove"}],
        clientX, clientY)

handleDragStartTouch(c, clientX, clientY) ==
    handleDragStart([c EXCEPT !.this.windowListeners = @ \cup {"touchend"}],
                    clientX, clientY)

handleDragEndMouse(c) ==
    handleDragEnd(
        [c EXCEPT !.this.windowListeners = @ \ {"mouseup", "mousemove"},
                  !.this.wrapperListeners =
                      IF c.this.wrapper THEN @ \ {"mouseup", "mousemove"} ELSE @])

handleDragEndTouch(c) ==
    handleDragEnd([c EXCEPT !.this.windowListeners = @ \ {"touchend"}])


\* the offset is not clamped for an item with a left panel only
get_onlyLeftContent_Never(c) == FALSE

get_onlyLeftContent(c) == c.this.contentLeft # Undefined /\ c.this.contentRight = Undefined

get_onlyRightContent(c) == c.this.contentLeft = Undefined /\ c.this.contentRight # Undefined

\* the sign of the offset is kept
OpacityOf_Signed(left) == (left * 100) \div OpacityDivisor

\* (Math.abs(left) / 100).toFixed(2), in hundredths
OpacityOf(left) == (Abs(left) * 100) \div OpacityDivisor

\* opacity.toString() === node.style.opacity, where style.opacity reads back
\* the serialized number: "0.50" reads back as "0.5" and "0.00" as "0", so
\* only a two-decimal string without a trailing zero can compare equal
SameOpacityString(fixed, stored) == stored = fixed /\ fixed % 10 # 0

\* the remaining distance is not clamped at 0
SwipeDistancePercent_Unclamped(left, width) ==
    100 - Round(100 * (width - Abs(left)), width)

\* 100 - Math.round((100 * Math.max(0, width - Math.abs(left))) / width)
SwipeDistancePercent(left, width) ==
    LET swipeDistance == Max(0, width - Abs(left))
    IN  100 - Round(100 * swipeDistance, width)

reportProgress(c) ==
    IF ~(props.onSwipeProgress /\ c.this.wrapper) THEN c
    ELSE
    LET listElementWidth == offsetWidth
        swipeDistancePercent ==
            IF listElementWidth # 0
            THEN SwipeDistancePercent(c.this.left, listElementWidth)
            ELSE c.this.previousSwipeDistancePercent
    IN  IF c.this.previousSwipeDistancePercent # swipeDistancePercent
        THEN [Fire(c, "onSwipeProgress") EXCEPT
                 !.progressArg = swipeDistancePercent,
                 !.this.previousSwipeDistancePercent = swipeDistancePercent]
        ELSE c

applyOpacity(c, show) ==
    LET opacity == OpacityOf(c.this.left)
        hide == IF c.this.left < 0 THEN "contentRight" ELSE "contentLeft"
        c1 == IF opacity < 100 /\ ~SameOpacityString(opacity, c.this[show][1].opacity)
              THEN LET w == [c EXCEPT !.this[show][1].opacity = opacity,
                                      !.fired.faded = show]
                   IN  IF w.this[hide] # Undefined
                       THEN [w EXCEPT !.this[hide][1].opacity = 0] ELSE w
              ELSE c
    IN  IF opacity >= 100 THEN [c1 EXCEPT !.this[show][1].opacity = 100] ELSE c1

\* the refresh is not throttled
FrameElapsed_Always(ms) == TRUE

\* elapsed > FPS_INTERVAL
FrameElapsed(ms) == ms * FpsDen > FpsNum

\* the two panels taken the other way round
contentToShow_Swapped(left) == IF left < 0 THEN "contentRight" ELSE "contentLeft"

\* let contentToShow = this.left < 0 ? this.contentLeft : this.contentRight
contentToShow(left) == IF left < 0 THEN "contentLeft" ELSE "contentRight"

\* the refresh goes through whether or not the item is swiping
updatePosition_AlsoAtRest(c) ==
    IF ~FrameElapsed(c.elapsed) THEN c
    ELSE
    LET show0 == contentToShow(c.this.left)
        clampL == get_onlyLeftContent(c) /\ c.this.left > 0
        c1 == IF clampL THEN [c EXCEPT !.this.left = 0] ELSE c
        show1 == IF clampL THEN "contentLeft" ELSE show0
        clampR == get_onlyRightContent(c1) /\ c1.this.left < 0
        c2 == IF clampR THEN [c1 EXCEPT !.this.left = 0] ELSE c1
        show == IF clampR THEN "contentRight" ELSE show1
        c3 == IF c2.this.wrapper
              THEN [c2 EXCEPT !.this.listElement.transform = c2.this.left]
              ELSE c2
        c4 == applyOpacity(reportProgress(c3), show)
    IN  IF c2.this[show] = Undefined THEN c2
        ELSE [c4 EXCEPT !.elapsed = 0, !.sinceRefresh = 0, !.fired.shown = show]

updatePosition(c) ==
    IF ~(FrameElapsed(c.elapsed) /\ isSwiping(c)) THEN c
    ELSE
    LET show0 == contentToShow(c.this.left)
        clampL == get_onlyLeftContent(c) /\ c.this.left > 0
        c1 == IF clampL THEN [c EXCEPT !.this.left = 0] ELSE c
        show1 == IF clampL THEN "contentLeft" ELSE show0
        clampR == get_onlyRightContent(c1) /\ c1.this.left < 0
        c2 == IF clampR THEN [c1 EXCEPT !.this.left = 0] ELSE c1
        show == IF clampR THEN "contentRight" ELSE show1
        c3 == IF c2.this.wrapper
              THEN [c2 EXCEPT !.this.listElement.transform = c2.this.left]
              ELSE c2
        c4 == applyOpacity(reportProgress(c3), show)
    IN  IF c2.this[show] = Undefined THEN c2
        ELSE [c4 EXCEPT !.elapsed = 0, !.sinceRefresh = 0, !.fired.shown = show]

\* the callback handed to requestAnimationFrame
animationFrame(c) ==
    updatePosition([c EXCEPT !.this.requestedAnimationFrame = FALSE,
                             !.frameRequests = @ - 1,
                             !.fired.stale = c.stale,
                             !.stale = FALSE])

\* the pending frame is left in the browser's queue
componentWillUnmount_NoCancel(c) ==
    [c EXCEPT !.this.wrapperListeners =
                  @ \ {"mousedown", "touchstart", "touchend", "touchmove"}]

componentWillUnmount(c) ==
    LET c1 == IF c.this.requestedAnimationFrame
              THEN [c EXCEPT !.frameRequests = @ - 1,
                             !.this.requestedAnimationFrame = FALSE,
                             !.stale = FALSE,
                             !.fired.cancelled = TRUE]
              ELSE c
    IN  [c1 EXCEPT !.this.wrapperListeners =
                       @ \ {"mousedown", "touchstart", "touchend", "touchmove"}]

\* React detaches the refs of an unmounted component: each ref callback of
\* render is called with null
detachRefs(c) ==
    [c EXCEPT !.this.wrapper = FALSE,
              !.this.contentLeft = Undefined,
              !.this.contentRight = Undefined]

\* ---------------------------------------------------------------- mount
Panel(action, cls) ==
    IF IsDefined(action) THEN Some([className |-> cls, opacity |-> Unset]) ELSE Undefined

\* constructor, render and componentDidMount
Mounted(p) ==
    [dragStartPoint |-> NoPoint,
     dragDirection |-> DragDirection.UNKNOWN,
     left |-> 0,
     previousSwipeDistancePercent |-> 0,
     requestedAnimationFrame |-> FALSE,
     contentLeft |-> Panel(p.swipeLeft, ClassLeft),
     contentRight |-> Panel(p.swipeRight, ClassRight),
     listElement |-> [className |-> ClassContent, transform |-> 0],
     wrapper |-> TRUE,
     wrapperListeners |-> {"mousedown", "touchstart", "touchend", "touchmove"},
     windowListeners |-> {}]

\* ----------------------------------------------------- SwipeableListItem2
\* the function component. Its listeners are registered once, by the effect
\* with the empty dependency list, so every handler that ever runs is a
\* closure of the first render: it reads the values left and dragStartPoint
\* had in that render (rendered) and shares that render's let variables,
\* while setLeft and setDragStartPoint write the React state that only a
\* later render reads.
Item2_dragHorizontalDirectionThreshold == 10
Item2_dragVerticalDirectionThreshold == 10

Item2_NoFired ==
    [onSwipeStart |-> 0, onSwipeEnd |-> 0, swipeLeftAction |-> 0,
     swipeRightAction |-> 0, onSwipeProgress |-> 0, thrown |-> FALSE,
     stopPropagation |-> FALSE, preventDefault |-> FALSE]

\* first render and effect
Item2_Mounted(p) ==
    [left |-> 0,
     dragStartPoint |-> NoPoint,
     rendered |-> [left |-> 0, dragStartPoint |-> NoPoint],
     dragDirection |-> DragDirection.UNKNOWN,
     previousSwipeDistancePercent |-> 0,
     requestedAnimationFrame |-> FALSE,
     elapsed |-> 0,
     frameRequests |-> 0,
     contentLeft |-> Panel(p.swipeLeft, ClassLeft),
     contentRight |-> Panel(p.swipeRight, ClassRight),
     listElement |-> [className |-> ClassContent, transform |-> 0],
     wrapperListeners |-> {"mousedown", "touchstart", "touchend", "touchmove"},
     windowListeners |-> {},
     fired |-> Item2_NoFired]

Item2_Fire(f, name) == [f EXCEPT !.fired[name] = @ + 1]

Item2_dragStartedWithinItem(f) ==
    f.rendered.dragStartPoint.x # 0 - 1 /\ f.rendered.dragStartPoint.y # 0 - 1

Item2_isSwiping(f) ==
    /\ ~props.blockSwipe
    /\ Item2_dragStartedWithinItem(f)
    /\ f.dragDirection \in {DragDirection.LEFT, DragDirection.RIGHT}

Item2_scheduleUpdatePosition(f) ==
    IF f.requestedAnimationFrame THEN f
    ELSE [f EXCEPT !.requestedAnimationFrame = TRUE, !.frameRequests = @ + 1]

Item2_resetState(f) ==
    [f EXCEPT !.dragStartPoint = NoPoint,
              !.dragDirection = DragDirection.UNKNOWN,
              !.left = 0,
              !.previousSwipeDistancePercent = 0]

\* classList.add of a class the element already has changes nothing
Item2_handleDragStart(f, clientX, clientY) ==
    LET f1 == Item2_resetState(f)
        f2 == [f1 EXCEPT !.dragStartPoint = [x |-> clientX, y |-> clientY],
                         !.elapsed = 0]
    IN  Item2_scheduleUpdatePosition(f2)

Item2_setDragDirection(f, x, y) ==
    IF f.dragDirection # DragDirection.UNKNOWN THEN f
    ELSE
    LET dx == x - f.rendered.dragStartPoint.x
        dy == y - f.rendered.dragStartPoint.y
        horizontalDistance == Abs(dx)
        verticalDistance == Abs(dy)
        octant == Octant(dx, dy)
        direction ==
            CASE octant = 0 ->
                    IF /\ f.contentRight # Undefined
                       /\ horizontalDistance > Item2_dragHorizontalDirectionThreshold
                    THEN DragDirection.RIGHT ELSE DragDirection.UNKNOWN
              [] octant \in {1, 2, 3} ->
                    IF verticalDistance > Item2_dragVerticalDirectionThreshold
                    THEN DragDirection.DOWN ELSE DragDirection.UNKNOWN
              [] octant = 4 ->
                    IF /\ f.contentLeft # Undefined
                       /\ horizontalDistance > Item2_dragHorizontalDirectionThreshold
                    THEN DragDirection.LEFT ELSE DragDirection.UNKNOWN
              [] octant \in {5, 6, 7} ->
                    IF verticalDistance > Item2_dragVerticalDirectionThreshold
                    THEN DragDirection.UP ELSE DragDirection.UNKNOWN
        f1 == [f EXCEPT !.dragDirection = direction]
    IN  IF /\ horizontalDistance <= Item2_dragHorizontalDirectionThreshold
           /\ verticalDistance <= Item2_dragVerticalDirectionThreshold
        THEN f
        ELSE IF props.onSwipeStart /\ Item2_isSwiping(f1)
        THEN Item2_Fire(f1, "onSwipeStart") ELSE f1

Item2_swipeMove(f, clientX) ==
    IF Item2_isSwiping(f)
    THEN Item2_scheduleUpdatePosition(
             [f EXCEPT !.fired.stopPropagation = TRUE,
                       !.fired.preventDefault = TRUE,
                       !.left = clientX - f.rendered.dragStartPoint.x])
    ELSE f

Item2_handleMouseMove(f, clientX, clientY) ==
    IF Item2_dragStartedWithinItem(f)
    THEN Item2_swipeMove(Item2_setDragDirection(f, clientX, clientY), clientX)
    ELSE f

Item2_handleTouchMove(f, clientX, clientY, cancelable) ==
    IF Item2_dragStartedWithinItem(f)
    THEN LET f1 == Item2_setDragDirection(f, clientX, clientY)
         IN  IF cancelable THEN Item2_swipeMove(f1, clientX) ELSE f1
    ELSE f

Item2_playReturnAnimation(f) ==
    LET f1 == [f EXCEPT !.listElement.className = ClassContentReturn,
                        !.listElement.transform = 0]
        f2 == IF f1.contentLeft # Undefined
              THEN [f1 EXCEPT !.contentLeft[1].opacity = 0,
                              !.contentLeft[1].className = ClassLeftReturn]
              ELSE f1
    IN  IF f2.contentRight # Undefined
        THEN [f2 EXCEPT !.contentRight[1].opacity = 0,
                        !.contentRight[1].className = ClassRightReturn]
        ELSE f2

Item2_playRemoveAnimation(f, direction) ==
    [f EXCEPT !.listElement.className = ClassContentRemove,
              !.listElement.transform =
                  offsetWidth * (IF direction = DragDirection.LEFT THEN 0 - 1 ELSE 1)]

Item2_playActionAnimation(f, type, direction) ==
    IF type = Some(ActionAnimationsEnum.REMOVE) THEN Item2_playRemoveAnimation(f, direction)
    ELSE IF type = Some(ActionAnimationsEnum.NONE) THEN f
    ELSE Item2_playReturnAnimation(f)

\* handleSwipedLeft and handleSwipedRight are not defined in the function
\* component: the call is a ReferenceError and the handler stops there, as it
\* does at swipeLeft.actionAnimation of an undefined swipeLeft
Item2_Throw(f) == [f EXCEPT !.fired.thrown = TRUE]

\* the trigger ratio is 0.5 whatever is configured; the state is not reset
\* and no return animation is played
Item2_handleDragEnd(f) ==
    LET swiping == Item2_isSwiping(f)
        goLeft == swiping /\ f.rendered.left * 2 < 0 - offsetWidth
        goRight == swiping /\ ~goLeft /\ f.rendered.left * 2 > offsetWidth
    IN  IF goLeft
        THEN IF IsDefined(props.swipeLeft)
             THEN Item2_Throw(Item2_playActionAnimation(f,
                      Val(props.swipeLeft).actionAnimation, DragDirection.LEFT))
             ELSE Item2_Throw(f)
        ELSE IF goRight
        THEN IF IsDefined(props.swipeRight)
             THEN Item2_Throw(Item2_playActionAnimation(f,
                      Val(props.swipeRight).actionAnimation, DragDirection.RIGHT))
             ELSE Item2_Throw(f)
        ELSE IF swiping /\ props.onSwipeEnd THEN Item2_Fire(f, "onSwipeEnd")
        ELSE f

Item2_handleDragStartMouse(f, clientX, clientY) ==
    Item2_handleDragStart(
        [f EXCEPT !.windowListeners = @ \cup {"mouseup", "mousemove"},
                  !.wrapperListeners = @ \cup {"mouseup", "mousemove"}],
        clientX, clientY)

Item2_handleDragEndMouse(f) ==
    Item2_handleDragEnd(
        [f EXCEPT !.windowListeners = @ \ {"mouseup", "mousemove"},
                  !.wrapperListeners = @ \ {"mouseup", "mousemove"}])

Item2_handleDragStartTouch(f, clientX, clientY) ==
    Item2_handleDragStart([f EXCEPT !.windowListeners = @ \cup {"touchend"}],
                          clientX, clientY)

Item2_handleDragEndTouch(f) ==
    Item2_handleDragEnd([f EXCEPT !.windowListeners = @ \ {"touchend"}])

\* onlyLeftContent and onlyRightContent are computed during the render, when
\* the refs of the first render are still null: both are false for good
Item2_onlyLeftContent == FALSE
Item2_onlyRightContent == FALSE

Item2_updatePosition(f) ==
    IF ~(FrameElapsed(f.elapsed) /\ Item2_isSwiping(f)) THEN f
    ELSE
    LET left == f.rendered.left
        show0 == IF left < 0 THEN "contentLeft" ELSE "contentRight"
        clampL == Item2_onlyLeftContent /\ left > 0
        f1 == IF clampL THEN [f EXCEPT !.left = 0] ELSE f
        show1 == IF clampL THEN "contentLeft" ELSE show0
        clampR == Item2_onlyRightContent /\ left < 0
        f2 == IF clampR THEN [f1 EXCEPT !.left = 0] ELSE f1
        show == IF clampR THEN "contentRight" ELSE show1
        hide == IF left < 0 THEN "contentRight" ELSE "contentLeft"
        f3 == [f2 EXCEPT !.listElement.transform = left]
        opacity == OpacityOf(left)
        swipeDistancePercent ==
            IF offsetWidth # 0 THEN SwipeDistancePercent(left, offsetWidth)
            ELSE f3.previousSwipeDistancePercent
        f4 == IF /\ props.onSwipeProgress
                 /\ f3.previousSwipeDistancePercent # swipeDistancePercent
              THEN [Item2_Fire(f3, "onSwipeProgress") EXCEPT
                       !.previousSwipeDistancePercent = swipeDistancePercent]
              ELSE f3
        f5 == IF opacity < 100 /\ ~SameOpacityString(opacity, f4[show][1].opacity)
              THEN LET w == [f4 EXCEPT ![show][1].opacity = opacity]
                   IN  IF w[hide] # Undefined
                       THEN [w EXCEPT ![hide][1].opacity = 0] ELSE w
              ELSE f4
        f6 == IF opacity >= 100 THEN [f5 EXCEPT ![show][1].opacity = 100] ELSE f5
    IN  IF f2[show] = Undefined THEN f2 ELSE [f6 EXCEPT !.elapsed = 0]

Item2_animationFrame(f) ==
    Item2_updatePosition([f EXCEPT !.requestedAnimationFrame = FALSE,
                                   !.frameRequests = @ - 1])

InitWith(lists, setups) ==
    /\ listProps \in lists
    /\ \E s \in setups : ownProps = s.props /\ offsetWidth = s.width
    /\ props = IF IsDefined(listProps) THEN SwipeableList(Val(listProps), ownProps)
               ELSE ownProps
    /\ this = Mounted(props)
    /\ elapsed = 0
    /\ pointer = "none"
    /\ fired = NoFired
    /\ progressArg = Unset
    /\ gestureStarts = 0
    /\ frameRequests = 0
    /\ sinceRefresh = Unset
    /\ moved = FALSE
    /\ stale = FALSE
    /\ gated = FALSE
    /\ swipeOpen = FALSE
    /\ item2 = Item2_Mounted(props)
    /\ lastOp = "mount"

Init == InitWith({Undefined}, Setups)

\* -------------------------------------------------------------- actions
Apply(c, op) ==
    /\ this' = c.this
    /\ elapsed' = c.elapsed
    /\ fired' = c.fired
    /\ progressArg' = c.progressArg
    /\ gestureStarts' = c.gestureStarts
    /\ frameRequests' = c.frameRequests
    /\ sinceRefresh' = c.sinceRefresh
    /\ moved' = c.moved
    /\ stale' = c.stale
    /\ gated' = c.gated
    /\ swipeOpen' = c.swipeOpen
    /\ lastOp' = op
    /\ UNCHANGED <<listProps, ownProps, props, offsetWidth>>

\* a dispatch to the class component alone
Commit(c, op) == Apply(c, op) /\ UNCHANGED item2

\* an event bubbles from its target through the wrapper (when the target is
\* inside it) to the window; at each of the two a listener runs if it is
\* registered when the event gets there and propagation was not stopped;
\* no event has its target inside the wrapper of an unmounted item
AtWrapper(c, type, inside) ==
    inside /\ c.this.wrapper /\ type \in c.this.wrapperListeners

AtWindow(c, type) == ~c.fired.stopPropagation /\ type \in c.this.windowListeners

MouseDown ==
    \E p \in StartPoints :
        /\ pointer = "none"
        /\ "mousedown" \in this.wrapperListeners
        /\ Commit(handleDragStartMouse(Ctx, p.x, p.y), "mousedown")
        /\ pointer' = "mouse"

MouseMoveAt(pt, inside) ==
    LET c1 == IF AtWrapper(Ctx, "mousemove", inside)
              THEN handleMouseMove(Ctx, pt.x, pt.y) ELSE Ctx
        c2 == IF AtWindow(c1, "mousemove")
              THEN handleMouseMove(c1, pt.x, pt.y) ELSE c1
    IN  /\ pointer = "mouse"
        /\ Commit(c2, "mousemove")
        /\ UNCHANGED pointer

MouseMove == \E pt \in MovePoints, inside \in BOOLEAN : MouseMoveAt(pt, inside)

MouseUp ==
    \E inside \in BOOLEAN :
        LET c1 == IF AtWrapper(Ctx, "mouseup", inside) THEN handleDragEndMouse(Ctx) ELSE Ctx
            c2 == IF AtWindow(c1, "mouseup") THEN handleDragEndMouse(c1) ELSE c1
        IN  /\ pointer = "mouse"
            /\ Commit(c2, "mouseup")
            /\ pointer' = "none"

TouchStart ==
    \E p \in StartPoints :
        /\ pointer = "none"
        /\ "touchstart" \in this.wrapperListeners
        /\ Commit(handleDragStartTouch(Ctx, p.x, p.y), "touchstart")
        /\ pointer' = "touch"

TouchMoveAt(pt, cancelable) ==
    /\ pointer = "touch"
    /\ "touchmove" \in this.wrapperListeners
    /\ Commit(handleTouchMove(Ctx, pt.x, pt.y, cancelable), "touchmove")
    /\ UNCHANGED pointer

TouchMove == \E pt \in MovePoints, cancelable \in BOOLEAN : TouchMoveAt(pt, cancelable)

TouchEnd ==
    LET c1 == IF AtWrapper(Ctx, "touchend", TRUE) THEN handleDragEndTouch(Ctx) ELSE Ctx
        c2 == IF AtWindow(c1, "touchend") THEN handleDragEndTouch(c1) ELSE c1
    IN  /\ pointer = "touch"
        /\ Commit(c2, "touchend")
        /\ pointer' = "none"

AnimationFrame ==
    /\ frameRequests > 0
    /\ Commit(animationFrame(Ctx), "frame")
    /\ UNCHANGED pointer

Elapse ==
    /\ elapsed <= MaxElapsed
    /\ elapsed' = elapsed + TickMs
    /\ sinceRefresh' = IF sinceRefresh = Unset \/ sinceRefresh > MaxElapsed
                       THEN sinceRefresh ELSE sinceRefresh + TickMs
    /\ fired' = NoFired
    /\ lastOp' = "tick"
    /\ UNCHANGED <<listProps, ownProps, props, offsetWidth, this, pointer,
                   progressArg, gestureStarts, frameRequests, moved, stale, gated,
                   swipeOpen>>

Tick == Elapse /\ UNCHANGED item2

Next ==
    \/ MouseDown
    \/ MouseMove
    \/ MouseUp
    \/ TouchStart
    \/ TouchMove
    \/ TouchEnd
    \/ AnimationFrame
    \/ Tick

Spec == Init /\ [][Next]_vars


\* an item mounted as an element child of a SwipeableList
ListConfigs ==
    {Some([scrollStartThreshold |-> Undefined, swipeStartThreshold |-> Undefined,
           threshold |-> Undefined]),
     Some([scrollStartThreshold |-> Some(20), swipeStartThreshold |-> Some(20),
           threshold |-> Some(<<1, 1>>)])}

ListSetups ==
    {[props |-> p, width |-> 40] :
        p \in {BaseProps,
               [BaseProps EXCEPT !.swipeStartThreshold = Some(15),
                                 !.threshold = Some(<<1, 4>>)]}}

InitList == InitWith(ListConfigs, ListSetups)

SpecList == InitList /\ [][Next]_vars

\* the item is unmounted at any moment, in the middle of a gesture included
Unmount ==
    /\ this.wrapper
    /\ Commit(detachRefs(componentWillUnmount(Ctx)), "unmount")
    /\ UNCHANGED pointer

TeardownSetups ==
    {[props |-> p, width |-> 40] :
        p \in {BaseProps, [BaseProps EXCEPT !.swipeRight = Undefined]}}

InitTeardown == InitWith({Undefined}, TeardownSetups)

NextTeardown == Next \/ Unmount

SpecTeardown == InitTeardown /\ [][NextTeardown]_vars

\* the base item and the item with a left action only, never unmounted
SpecOneSided == InitTeardown /\ [][Next]_vars

\* ------------------------------- two inputs at once, blockSwipe changing
\* a mouse event on its way through the wrapper to the window
dispatchMouseMove(c, pt, inside) ==
    LET c1 == IF AtWrapper(c, "mousemove", inside)
              THEN handleMouseMove(c, pt.x, pt.y) ELSE c
    IN  IF AtWindow(c1, "mousemove") THEN handleMouseMove(c1, pt.x, pt.y) ELSE c1

dispatchMouseUp(c, inside) ==
    LET c1 == IF AtWrapper(c, "mouseup", inside) THEN handleDragEndMouse(c) ELSE c
    IN  IF AtWindow(c1, "mouseup") THEN handleDragEndMouse(c1) ELSE c1

dispatchTouchEnd(c) ==
    LET c1 == IF AtWrapper(c, "touchend", TRUE) THEN handleDragEndTouch(c) ELSE c
    IN  IF AtWindow(c1, "touchend") THEN handleDragEndTouch(c1) ELSE c1

\* a finger touches the item during a mouse drag, or the mouse button goes
\* down on it during a touch: a second drag start with no drag end before it
SecondStart ==
    \E p \in StartPoints :
        \/ /\ pointer = "mouse"
           /\ "touchstart" \in this.wrapperListeners
           /\ Commit(handleDragStartTouch(Ctx, p.x, p.y), "touchstart")
           /\ pointer' = "both"
        \/ /\ pointer = "touch"
           /\ "mousedown" \in this.wrapperListeners
           /\ Commit(handleDragStartMouse(Ctx, p.x, p.y), "mousedown")
           /\ pointer' = "both"

\* either input moves while both are down
MoveOfTwo ==
    /\ pointer = "both"
    /\ \E pt \in MovePoints :
         \/ \E inside \in BOOLEAN :
                Commit(dispatchMouseMove(Ctx, pt, inside), "mousemove")
         \/ \E cancelable \in BOOLEAN :
                /\ "touchmove" \in this.wrapperListeners
                /\ Commit(handleTouchMove(Ctx, pt.x, pt.y, cancelable), "touchmove")
    /\ UNCHANGED pointer

\* either input is released while both are down
EndOfTwo ==
    /\ pointer = "both"
    /\ \/ /\ \E inside \in BOOLEAN : Commit(dispatchMouseUp(Ctx, inside), "mouseup")
          /\ pointer' = "touch"
       \/ /\ Commit(dispatchTouchEnd(Ctx), "touchend")
          /\ pointer' = "mouse"

\* the parent renders the item again with the other value of blockSwipe
SetBlockSwipe ==
    /\ props' = [props EXCEPT !.blockSwipe = ~@]
    /\ ownProps' = [ownProps EXCEPT !.blockSwipe = ~@]
    /\ fired' = NoFired
    /\ lastOp' = "props"
    /\ UNCHANGED <<listProps, offsetWidth, this, elapsed, pointer, progressArg,
                   gestureStarts, frameRequests, sinceRefresh, moved, stale,
                   gated, swipeOpen, item2>>

InitInterleaved == InitWith({Undefined}, {[props |-> BaseProps, width |-> 40]})

\* the input events alone: a refresh calls neither onSwipeStart nor onSwipeEnd
\* and writes none of the fields their conditions read
NextInterleaved ==
    \/ MouseDown
    \/ MouseMove
    \/ MouseUp
    \/ TouchStart
    \/ TouchMove
    \/ TouchEnd
    \/ SecondStart
    \/ MoveOfTwo
    \/ EndOfTwo
    \/ SetBlockSwipe

SpecInterleaved == InitInterleaved /\ [][NextInterleaved]_vars

\* items configured with thresholds of 0, and with other values
ZeroSetups ==
    {[props |-> p, width |-> 40] :
        p \in {[BaseProps EXCEPT !.swipeStartThreshold = Some(0),
                                 !.scrollStartThreshold = Some(0),
                                 !.threshold = Some(<<0, 1>>)],
               [BaseProps EXCEPT !.swipeStartThreshold = Some(15),
                                 !.scrollStartThreshold = Some(15),
                                 !.threshold = Some(<<1, 4>>)]}}

InitZero == InitWith({Undefined}, ZeroSetups)

SpecZero == InitZero /\ [][Next]_vars

\* ------------------------- the two generations side by side, same events
Item2_Ctx == [item2 EXCEPT !.fired = Item2_NoFired]

Item2_AtWrapper(f, type, inside) == inside /\ type \in f.wrapperListeners

Item2_AtWindow(f, type) == ~f.fired.stopPropagation /\ type \in f.windowListeners

Item2_dispatchMouseMove(f, pt, inside) ==
    LET f1 == IF Item2_AtWrapper(f, "mousemove", inside)
              THEN Item2_handleMouseMove(f, pt.x, pt.y) ELSE f
    IN  IF Item2_AtWindow(f1, "mousemove")
        THEN Item2_handleMouseMove(f1, pt.x, pt.y) ELSE f1

Item2_dispatchMouseUp(f, inside) ==
    LET f1 == IF Item2_AtWrapper(f, "mouseup", inside)
              THEN Item2_handleDragEndMouse(f) ELSE f
    IN  IF Item2_AtWindow(f1, "mouseup") THEN Item2_handleDragEndMouse(f1) ELSE f1

Item2_dispatchTouchEnd(f) ==
    LET f1 == IF Item2_AtWrapper(f, "touchend", TRUE)
              THEN Item2_handleDragEndTouch(f) ELSE f
    IN  IF Item2_AtWindow(f1, "touchend") THEN Item2_handleDragEndTouch(f1) ELSE f1

PairMouseDown ==
    \E p \in StartPoints :
        /\ pointer = "none"
        /\ Apply(handleDragStartMouse(Ctx, p.x, p.y), "mousedown")
        /\ item2' = Item2_handleDragStartMouse(Item2_Ctx, p.x, p.y)
        /\ pointer' = "mouse"

PairMouseMove ==
    \E pt \in MovePoints, inside \in BOOLEAN :
        /\ pointer = "mouse"
        /\ Apply(dispatchMouseMove(Ctx, pt, inside), "mousemove")
        /\ item2' = Item2_dispatchMouseMove(Item2_Ctx, pt, inside)
        /\ UNCHANGED pointer

PairMouseUp ==
    \E inside \in BOOLEAN :
        /\ pointer = "mouse"
        /\ Apply(dispatchMouseUp(Ctx, inside), "mouseup")
        /\ item2' = Item2_dispatchMouseUp(Item2_Ctx, inside)
        /\ pointer' = "none"

PairTouchStart ==
    \E p \in StartPoints :
        /\ pointer = "none"
        /\ Apply(handleDragStartTouch(Ctx, p.x, p.y), "touchstart")
        /\ item2' = Item2_handleDragStartTouch(Item2_Ctx, p.x, p.y)
        /\ pointer' = "touch"

PairTouchMove ==
    \E pt \in MovePoints, cancelable \in BOOLEAN :
        /\ pointer = "touch"
        /\ Apply(handleTouchMove(Ctx, pt.x, pt.y, cancelable), "touchmove")
        /\ item2' = Item2_handleTouchMove(Item2_Ctx, pt.x, pt.y, cancelable)
        /\ UNCHANGED pointer

PairTouchEnd ==
    /\ pointer = "touch"
    /\ Apply(dispatchTouchEnd(Ctx), "touchend")
    /\ item2' = Item2_dispatchTouchEnd(Item2_Ctx)
    /\ pointer' = "none"

\* the browser runs the frame callbacks that are pending
PairFrame ==
    /\ frameRequests > 0 \/ item2.frameRequests > 0
    /\ Apply(IF frameRequests > 0 THEN animationFrame(Ctx) ELSE Ctx, "frame")
    /\ item2' = IF item2.frameRequests > 0
                THEN Item2_animationFrame(Item2_Ctx) ELSE Item2_Ctx
    /\ UNCHANGED pointer

PairTick ==
    /\ Elapse
    /\ item2' = [item2 EXCEPT !.elapsed = IF @ <= MaxElapsed THEN @ + TickMs ELSE @,
                              !.fired = Item2_NoFired]

InitPair == InitWith({Undefined}, {[props |-> BaseProps, width |-> 40]})

NextPair ==
    \/ PairMouseDown
    \/ PairMouseMove
    \/ PairMouseUp
    \/ PairTouchStart
    \/ PairTouchMove
    \/ PairTouchEnd
    \/ PairFrame
    \/ PairTick

SpecPair == InitPair /\ [][NextPair]_vars

\* an item whose animations are configured with the enum the prop is typed with
EnumSetups ==
    {[props |-> [BaseProps EXCEPT
                    !.swipeLeft = SwipeAction(Some(ActionAnimationsEnum.REMOVE)),
                    !.swipeRight = SwipeAction(Some(ActionAnimationsEnum.NONE))],
      width |-> 40]}

InitEnum == InitWith({Undefined}, EnumSetups)

SpecEnum == InitEnum /\ [][Next]_vars

\* one refresh on its own: a mouse gesture classified horizontal, dragged to
\* any offset on an item of any width, one frame interval after its start,
\* with the refresh requested at the start still pending
InitProgress ==
    /\ listProps = Undefined
    /\ ownProps = BaseProps
    /\ props = ownProps
    /\ offsetWidth \in 0..MaxWidth
    /\ \E d \in (0 - MaxOffset)..MaxOffset :
         this = [Mounted(props) EXCEPT
                    !.dragStartPoint = [x |-> 200, y |-> 50],
                    !.dragDirection = IF d < 0 THEN DragDirection.LEFT
                                      ELSE DragDirection.RIGHT,
                    !.left = d,
                    !.requestedAnimationFrame = TRUE,
                    !.windowListeners = {"mouseup", "mousemove"},
                    !.wrapperListeners = @ \cup {"mouseup", "mousemove"}]
    /\ elapsed = TickMs
    /\ pointer = "mouse"
    /\ fired = NoFired
    /\ progressArg = Unset
    /\ gestureStarts = 1
    /\ frameRequests = 1
    /\ sinceRefresh = Unset
    /\ moved = TRUE
    /\ stale = TRUE
    /\ gated = FALSE
    /\ swipeOpen = TRUE
    /\ item2 = Item2_Mounted(props)
    /\ lastOp = "tick"

NextProgress == AnimationFrame

SpecProgress == InitProgress /\ [][NextProgress]_vars

\* ================================================================ claims
StartOps == {"mousedown", "touchstart"}
MoveOps == {"mousemove", "touchmove"}
EndOps == {"mouseup", "touchend"}

Horizontal == {DragDirection.LEFT, DragDirection.RIGHT}

\* the release the last dispatch handled: what handleDragEnd found on entry
Released == lastOp \in EndOps /\ Len(fired.dragEnds) = 1
Release == fired.dragEnds[1]

BothActions == IsDefined(props.swipeLeft) /\ IsDefined(props.swipeRight)

NoAction == fired.swipeLeftAction = 0 /\ fired.swipeRightAction = 0

NoCallback ==
    /\ NoAction
    /\ fired.onSwipeStart = 0
    /\ fired.onSwipeEnd = 0
    /\ fired.onSwipeProgress = 0

PanelHidden(panel) == IsDefined(panel) => Val(panel).opacity = 0

ReturnedToRest ==
    /\ this.listElement.transform = 0
    /\ this.listElement.className = ClassContentReturn
    /\ PanelHidden(this.contentLeft)
    /\ PanelHidden(this.contentRight)

GestureReset ==
    /\ this.dragStartPoint = NoPoint
    /\ this.dragDirection = DragDirection.UNKNOWN
    /\ this.left = 0
    /\ this.previousSwipeDistancePercent = 0

\* the configured value of an option, else the built-in default
Configured(option, default) == IF IsDefined(option) THEN Val(option) ELSE default

TriggerRatio == Configured(props.threshold, <<1, 2>>)

\* offset < -(width * triggerRatio), and offset > width * triggerRatio
PastLeftTrigger(offset) == offset * TriggerRatio[2] < 0 - (offsetWidth * TriggerRatio[1])
PastRightTrigger(offset) == offset * TriggerRatio[2] > offsetWidth * TriggerRatio[1]

\* C1: at the release of a gesture classified horizontal, with both actions
\* configured, the left action runs exactly once and the right one not at all
\* when the final offset is below -(width * triggerRatio), the right action
\* runs exactly once and the left one not at all when it is above
\* width * triggerRatio, and no action runs otherwise.
C1_ActionAtRelease ==
    (Released /\ BothActions /\ Release.dragDirection \in Horizontal) =>
        /\ fired.swipeLeftAction = (IF PastLeftTrigger(Release.left) THEN 1 ELSE 0)
        /\ fired.swipeRightAction = (IF PastRightTrigger(Release.left) THEN 1 ELSE 0)

C1_Witness ==
    /\ Released /\ BothActions
    /\ Release.dragDirection = DragDirection.RIGHT
    /\ PastLeftTrigger(Release.left)
    /\ fired.swipeLeftAction = 1 /\ fired.swipeRightAction = 0

\* C2: at a release whose final offset does not exceed the trigger distance
\* (|offset| <= width * triggerRatio, equality included) no action callback
\* runs and ReturnToRest is applied: translation 0, every existing panel at
\* opacity 0, the item marked as returning.
C2_ReturnToRest ==
    (Released /\ ~PastLeftTrigger(Release.left) /\ ~PastRightTrigger(Release.left)) =>
        NoAction /\ ~fired.thrown /\ ReturnedToRest

C2_Witness ==
    /\ Released /\ Release.swiping /\ offsetWidth > 0
    /\ Abs(Release.left) * TriggerRatio[2] = offsetWidth * TriggerRatio[1]
    /\ NoAction /\ ReturnedToRest

\* C3: a release beyond the trigger threshold toward a side with no action
\* configured is handled as if the threshold were not crossed: no action, no
\* fault, ReturnToRest, onSwipeEnd fired, gesture state reset.
C3_MissingActionSuppressed ==
    (/\ Released /\ Release.swiping
     /\ \/ PastLeftTrigger(Release.left) /\ ~IsDefined(props.swipeLeft)
        \/ PastRightTrigger(Release.left) /\ ~IsDefined(props.swipeRight)) =>
        /\ NoAction
        /\ ~fired.thrown
        /\ ReturnedToRest
        /\ props.onSwipeEnd => fired.onSwipeEnd = 1
        /\ GestureReset

\* C4: within one gesture (no drag start or drag end in between) a direction
\* other than Unknown never changes, whatever move events follow.
C4_DirectionSticky ==
    [][(this.dragDirection # DragDirection.UNKNOWN /\ lastOp' \notin StartOps \cup EndOps)
         => this'.dragDirection = this.dragDirection]_vars

C4_Witness ==
    /\ lastOp \in MoveOps
    /\ this.dragDirection = DragDirection.LEFT
    /\ this.left > 0

\* C5: a move event of an active gesture whose direction is still Unknown and
\* that stays within both start thresholds leaves direction Unknown and the
\* offset 0, schedules no refresh, fires no callback and changes no
\* translation or opacity.
WithinStartThresholds(pt) ==
    /\ Abs(pt.x - this.dragStartPoint.x) <= Configured(props.swipeStartThreshold, 10)
    /\ Abs(pt.y - this.dragStartPoint.y) <= Configured(props.scrollStartThreshold, 10)

C5_BelowThresholds ==
    [][\A pt \in MovePoints, b \in BOOLEAN :
         (/\ this.dragStartPoint # NoPoint
          /\ this.dragDirection = DragDirection.UNKNOWN
          /\ WithinStartThresholds(pt)
          /\ MouseMoveAt(pt, b) \/ TouchMoveAt(pt, b)) =>
            /\ this' = this
            /\ this.left = 0
            /\ NoCallback'
            /\ progressArg' = progressArg]_vars

C5_Witness ==
    /\ lastOp \in MoveOps
    /\ props = BaseProps
    /\ this.dragStartPoint # NoPoint
    /\ this.dragDirection = DragDirection.UNKNOWN
    /\ this.requestedAnimationFrame = FALSE

\* C6: with blockSwipe set, no sequence of start, move, refresh and end events
\* changes the translation, no callback is ever invoked and the offset stays 0.
C6_BlockSwipe ==
    props.blockSwipe =>
        /\ this.left = 0
        /\ this.listElement.transform = 0
        /\ NoCallback
        /\ gestureStarts = 0
        /\ progressArg = Unset

C6_Witness ==
    /\ props.blockSwipe
    /\ lastOp \in MoveOps
    /\ this.dragDirection \in Horizontal

\* C7: an item uses its own threshold value when it sets one, else the list's
\* value when the list sets one, else the default (10, 10, 0.5).
Resolved(own, list, default) == Configured(own, Configured(list, default))

C7_ItemOverridesList ==
    IsDefined(listProps) =>
        /\ dragHorizontalDirectionThreshold =
              Resolved(ownProps.swipeStartThreshold, Val(listProps).swipeStartThreshold, 10)
        /\ dragVerticalDirectionThreshold =
              Resolved(ownProps.scrollStartThreshold, Val(listProps).scrollStartThreshold, 10)
        /\ threshold = Resolved(ownProps.threshold, Val(listProps).threshold, <<1, 2>>)

\* C8: onSwipeStart is invoked at most once per gesture, by the move event at
\* which the direction goes from Unknown to Left or Right, and a move event that
\* resolves an unblocked gesture to Left or Right invokes it.
C8_SwipeStartOnce ==
    [][/\ gestureStarts' <= 1
       /\ fired'.onSwipeStart > 0 =>
            /\ lastOp' \in MoveOps
            /\ fired'.onSwipeStart = 1
            /\ this.dragDirection = DragDirection.UNKNOWN
            /\ this'.dragDirection \in Horizontal
       /\ (/\ props.onSwipeStart /\ ~props.blockSwipe
           /\ this.dragDirection = DragDirection.UNKNOWN
           /\ this'.dragDirection \in Horizontal) => fired'.onSwipeStart = 1]_vars

C8_Witness ==
    /\ lastOp \in MoveOps
    /\ fired.onSwipeStart = 0
    /\ gestureStarts = 1
    /\ this.dragDirection \in Horizontal

\* C9: onSwipeEnd is invoked exactly once at the release of a gesture that was
\* classified horizontal, and not at all at any other release.
C9_SwipeEndOnce ==
    (Released /\ props.onSwipeEnd) =>
        fired.onSwipeEnd = (IF Release.swiping THEN 1 ELSE 0)

\* C10: every value passed to onSwipeProgress is an integer in 0..100.
C10_ProgressRange == progressArg # Unset => progressArg \in 0..100

C10_Witness ==
    /\ fired.onSwipeProgress = 1
    /\ offsetWidth > 0
    /\ Abs(this.left) > offsetWidth
    /\ progressArg = 100

\* C11: any two consecutive onSwipeProgress invocations on one item carry
\* different values.
C11_NoDuplicateProgress ==
    [][fired'.onSwipeProgress > 0 => progressArg' # progressArg]_vars

\* the translation a refresh applies for an offset: the offset itself, or 0
\* where the item has no panel on the side the offset opens
DisplayedOffset(offset) ==
    IF offset > 0 /\ ~IsDefined(props.swipeRight) THEN 0
    ELSE IF offset < 0 /\ ~IsDefined(props.swipeLeft) THEN 0
    ELSE offset

HeldHorizontal ==
    /\ this.dragStartPoint # NoPoint
    /\ this.dragDirection \in Horizontal
    /\ ~props.blockSwipe

\* C12: moves that arrive within one frame interval collapse into one applied
\* update, and the translation applied is the offset of the last move: while
\* a horizontal gesture is held and the displayed translation is not the
\* offset of its last move, a refresh is pending that will apply it.
C12_LastOffsetApplied ==
    (HeldHorizontal /\ this.left # 0 /\ frameRequests = 0)
        => this.listElement.transform = DisplayedOffset(this.left)

OnlyLeftPanel == IsDefined(props.swipeLeft) /\ ~IsDefined(props.swipeRight)
OnlyRightPanel == ~IsDefined(props.swipeLeft) /\ IsDefined(props.swipeRight)

MoreThanFrameInterval(ms) == ms * 60 > 1000

\* the frame callback about to run will go past the throttle: the gesture is
\* horizontal and more than one frame interval has elapsed
RefreshDue ==
    /\ frameRequests > 0
    /\ HeldHorizontal
    /\ MoreThanFrameInterval(elapsed)

\* C13: with only a left panel and a horizontal gesture at an offset > 0,
\* every executed refresh sets the offset to 0, applies translation 0 and
\* selects the left panel; the applied translation is never positive and the
\* absent right panel is never selected.  Symmetrically for only a right
\* panel and an offset < 0.
C13_ClampOneSided ==
    [][/\ (lastOp' = "frame" /\ RefreshDue /\ OnlyLeftPanel /\ this.left > 0)
            => /\ this'.left = 0
               /\ this'.listElement.transform = 0
               /\ fired'.shown = "contentLeft"
       /\ (lastOp' = "frame" /\ RefreshDue /\ OnlyRightPanel /\ this.left < 0)
            => /\ this'.left = 0
               /\ this'.listElement.transform = 0
               /\ fired'.shown = "contentRight"
       /\ OnlyLeftPanel
            => this'.listElement.transform <= 0 /\ fired'.shown # "contentRight"
       /\ OnlyRightPanel
            => this'.listElement.transform >= 0 /\ fired'.shown # "contentLeft"
      ]_vars

\* a refresh has just clamped a rightward drag of an item with a left panel only
C13_Witness ==
    /\ lastOp = "frame"
    /\ fired.shown = "contentLeft"
    /\ OnlyLeftPanel
    /\ this.left = 0
    /\ this.listElement.transform = 0
    /\ this.dragDirection = DragDirection.LEFT

Min(a, b) == IF a < b THEN a ELSE b

\* the last dispatch was a frame callback whose refresh went through
Refreshed == lastOp = "frame" /\ fired.shown # "none"

\* the original statement of C14: with both panels present a refresh reveals
\* the right-content panel for an offset < 0 and the left-content panel for
\* an offset >= 0
C14_RightPanelForNegativeOffset ==
    (Refreshed /\ BothActions)
        => fired.shown = (IF this.left < 0 THEN "contentRight" ELSE "contentLeft")

\* C14: on each executed refresh with both panels present, the panel revealed
\* is chosen by the sign of the offset: an offset < 0 reveals contentLeft, the
\* panel rendered from swipeLeft, and an offset >= 0 reveals contentRight, the
\* panel rendered from swipeRight; the revealed panel gets the opacity
\* min(1, |offset| / 100).
C14_PanelBySign ==
    (Refreshed /\ BothActions)
        => /\ fired.shown = (IF this.left < 0 THEN "contentLeft" ELSE "contentRight")
           /\ Val(this[fired.shown]).opacity = Min(100, Abs(this.left))

C14_Witness ==
    /\ Refreshed
    /\ BothActions
    /\ this.left < 0
    /\ fired.shown = "contentLeft"
    /\ Val(this.contentLeft).opacity = 21
    /\ Val(this.contentRight).opacity = 0

\* C15: at most one refresh is pending per item: the browser holds at most
\* one callback of the item, exactly when requestedAnimationFrame is set; a
\* scheduleUpdatePosition call that finds a request pending adds none; and
\* when the callback has run the flag is clear, so that the next call arms a
\* new request.
C15_OneRefreshPending ==
    /\ frameRequests \in {0, 1}
    /\ this.requestedAnimationFrame <=> frameRequests = 1
    /\ fired.coalesced > 0 => frameRequests = 1
    /\ lastOp = "frame" => ~this.requestedAnimationFrame

\* a move that changed the offset called scheduleUpdatePosition while the
\* request of the drag start was still pending
C15_Witness ==
    /\ lastOp \in MoveOps
    /\ fired.coalesced = 1
    /\ this.left # 0
    /\ this.requestedAnimationFrame
    /\ frameRequests = 1

\* C16: a frame callback changes the translation, an opacity or the reported
\* progress only if the gesture is classified horizontal and more than one
\* frame interval has elapsed since the drag start and since the previous
\* refresh that went through; so two such refreshes are more than one frame
\* interval apart.
C16_RefreshThrottled ==
    [][(/\ lastOp' = "frame"
        /\ \/ this'.listElement # this.listElement
           \/ this'.contentLeft # this.contentLeft
           \/ this'.contentRight # this.contentRight
           \/ fired'.onSwipeProgress > 0
           \/ fired'.shown # "none")
        => /\ this.dragDirection \in Horizontal
           /\ MoreThanFrameInterval(elapsed)
           /\ sinceRefresh # Unset => MoreThanFrameInterval(sinceRefresh)
      ]_vars

\* a second refresh of one gesture: it reports progress 0, which it only
\* does after an earlier refresh of the gesture reported another value
C16_Witness ==
    /\ Refreshed
    /\ fired.onSwipeProgress = 1
    /\ progressArg = 0
    /\ sinceRefresh = 0
    /\ this.listElement.transform = 0

\* the last dispatch ran the drag-end handler at least once
DragEnded == lastOp \in EndOps /\ Len(fired.dragEnds) >= 1

\* C17: after the drag-end handler has run the gesture state is at the unset
\* values (start point unset, direction Unknown, offset 0, last progress 0),
\* whatever the outcome of the release.
C17_ResetAfterDragEnd == DragEnded => GestureReset

\* C18: once the item is torn down no listener of the item is left, on the
\* root element or on the window, a teardown in the middle of a mouse or
\* touch gesture included; so no later window-level event runs a drag handler
\* of the item.
C18_ListenersReleased ==
    ~this.wrapper
        => /\ this.wrapperListeners = {}
           /\ this.windowListeners = {}
           /\ lastOp \in EndOps => Len(fired.dragEnds) = 0
           /\ lastOp \in MoveOps => ~moved

\* C19: teardown cancels the pending refresh: when componentWillUnmount has
\* run no request is recorded and the browser holds no callback of the item,
\* so the refresh that was pending at teardown never runs.
C19_TeardownCancelsRefresh ==
    lastOp = "unmount" => frameRequests = 0 /\ ~this.requestedAnimationFrame

\* a teardown in the middle of a horizontal gesture, with a refresh pending
C19_Witness ==
    /\ lastOp = "unmount"
    /\ fired.cancelled
    /\ this.dragDirection \in Horizontal
    /\ this.left # 0
    /\ frameRequests = 0

\* C20: a gesture whose direction is still Unknown at the release (no move
\* left the two thresholds) ends with no action callback, no onSwipeStart
\* during the gesture, no onSwipeEnd and no progress report, and its only
\* visual effect is the reset to rest: translation 0, panels hidden, gesture
\* state unset.
C20_UnresolvedGesture ==
    (DragEnded /\ \A i \in DOMAIN fired.dragEnds :
                      fired.dragEnds[i].dragDirection = DragDirection.UNKNOWN)
        => /\ NoCallback
           /\ gestureStarts = 0
           /\ ~fired.thrown
           /\ ReturnedToRest
           /\ GestureReset

\* a release after moves that all stayed within the thresholds, on an item
\* that can swipe both ways
C20_Witness ==
    /\ Released
    /\ Release.moved
    /\ Release.dragDirection = DragDirection.UNKNOWN
    /\ BothActions
    /\ ~props.blockSwipe
    /\ ReturnedToRest

\* the animation outcome an action is configured with, by either export
AnimationIs(action, name) ==
    /\ IsDefined(action)
    /\ Val(action).actionAnimation
           \in {Some(ActionAnimations[name]), Some(ActionAnimationsEnum[name])}

LeftTriggered == Released /\ Release.swiping /\ PastLeftTrigger(Release.left)
RightTriggered ==
    Released /\ Release.swiping /\ ~PastLeftTrigger(Release.left)
             /\ PastRightTrigger(Release.left)

Removing(translation) ==
    /\ this.listElement.transform = translation
    /\ this.listElement.className = ClassContentRemove

\* C21: when an action triggers at release and its animation is configured as
\* RemoveFromView, the translation is set to -width for the left action and
\* +width for the right action and the item is marked as removing; the return
\* animation is not applied at that release.
C21_RemoveFromView ==
    /\ (LeftTriggered /\ AnimationIs(props.swipeLeft, "REMOVE"))
           => Removing(0 - offsetWidth) /\ fired.swipeLeftAction = 1
    /\ (RightTriggered /\ AnimationIs(props.swipeRight, "REMOVE"))
           => Removing(offsetWidth) /\ fired.swipeRightAction = 1

PanelOpacity(panel) == IF IsDefined(panel) THEN Val(panel).opacity ELSE Unset

\* what is displayed: the translation and the opacity of each panel
Visual ==
    <<this.listElement.transform, PanelOpacity(this.contentLeft),
      PanelOpacity(this.contentRight)>>

StayInPlaceTriggered ==
    \/ LeftTriggered /\ AnimationIs(props.swipeLeft, "NONE")
    \/ RightTriggered /\ AnimationIs(props.swipeRight, "NONE")

\* C22: when an action triggers at release and its animation is configured as
\* StayInPlace, the release changes neither the translation nor a panel
\* opacity, and afterwards nothing but the next drag start changes them: no
\* stale refresh and no reset moves the item that was left in place.
C22_StayInPlace ==
    [][/\ StayInPlaceTriggered' => Visual' = Visual
       /\ (/\ this.dragStartPoint = NoPoint
           /\ this.listElement.className = ClassContent
           /\ lastOp' \notin StartOps) => Visual' = Visual
      ]_vars

\* the horizontal and vertical travel of a move to pt, and the 45-degree
\* sector around the positive or the negative x axis
TravelX(pt) == pt.x - this.dragStartPoint.x
TravelY(pt) == pt.y - this.dragStartPoint.y
Rightward(pt) == Octant(TravelX(pt), TravelY(pt)) = 0
Leftward(pt) == Octant(TravelX(pt), TravelY(pt)) = 4
SwipeStartDistance == Configured(props.swipeStartThreshold, 10)
ScrollStartDistance == Configured(props.scrollStartThreshold, 10)

Vertical == {DragDirection.UP, DragDirection.DOWN}

\* C24: for a gesture classified Up or Down the offset is 0, every later move
\* leaves it 0, calls scheduleUpdatePosition not at all and does not prevent
\* the event's default; at its release no action callback and no onSwipeEnd
\* fire.
C24_VerticalGesture ==
    [][/\ this.dragDirection \in Vertical => this.left = 0
       /\ (this.dragDirection \in Vertical /\ lastOp' \in MoveOps)
            => /\ this'.left = 0
               /\ this'.dragDirection = this.dragDirection
               /\ frameRequests' = frameRequests
               /\ this'.requestedAnimationFrame = this.requestedAnimationFrame
               /\ fired'.coalesced = 0
               /\ ~fired'.preventDefault
       /\ (this.dragDirection \in Vertical /\ lastOp' \in EndOps)
            => /\ Len(fired'.dragEnds) = 1
               /\ fired'.dragEnds[1].dragDirection = this.dragDirection
               /\ NoCallback'
               /\ ~fired'.thrown
      ]_vars

\* the release of a gesture classified Down on an item that can swipe both ways
C24_Witness ==
    /\ Released
    /\ Release.dragDirection = DragDirection.DOWN
    /\ Release.left = 0
    /\ BothActions
    /\ ~props.blockSwipe
    /\ fired.onSwipeEnd = 0

\* C25: in every reachable state a non-zero offset implies an active gesture
\* (start point set) whose direction is Left or Right; the offset is 0
\* whenever the direction is Unknown, Up or Down.
C25_OffsetOnlyWhenHorizontal ==
    /\ this.left # 0
         => this.dragStartPoint # NoPoint /\ this.dragDirection \in Horizontal
    /\ this.dragDirection \in Vertical \cup {DragDirection.UNKNOWN}
         => this.left = 0

\* a horizontal gesture dragged away from its start point
C25_Witness ==
    /\ lastOp \in MoveOps
    /\ this.left = 21
    /\ this.dragStartPoint # NoPoint
    /\ this.dragDirection = DragDirection.RIGHT

\* the progress as the original statement of C26 computes it:
\* round(100 * (1 - max(0, width - |offset|) / width))
ProgressOfTravelled(offset, width) ==
    LET remaining == IF width - Abs(offset) > 0 THEN width - Abs(offset) ELSE 0
    IN  (2 * 100 * (width - remaining) + width) \div (2 * width)

\* the progress as 100 - round(100 * max(0, width - |offset|) / width)
ProgressOfRemaining(offset, width) ==
    LET remaining == IF width - Abs(offset) > 0 THEN width - Abs(offset) ELSE 0
    IN  100 - ((2 * 100 * remaining + width) \div (2 * width))

\* with width 0 no progress is ever computed or reported
NoProgressAtWidthZero ==
    offsetWidth = 0
        => /\ this.previousSwipeDistancePercent = 0
           /\ progressArg = Unset
           /\ fired.onSwipeProgress = 0

\* the original statement of C26: after a refresh with onSwipeProgress
\* configured and width # 0 the progress computed is
\* round(100 * (1 - max(0, width - |offset|) / width)), halves included; with
\* width 0 the previous value is kept and nothing is emitted
C26_ProgressOfTravelled ==
    /\ (Refreshed /\ props.onSwipeProgress /\ offsetWidth # 0)
         => this.previousSwipeDistancePercent
                = ProgressOfTravelled(this.left, offsetWidth)
    /\ NoProgressAtWidthZero

\* C26: after a refresh with onSwipeProgress configured and width # 0 the
\* progress computed is 100 - round(100 * max(0, width - |offset|) / width)
\* with halves rounded up, which is one less than
\* round(100 * (1 - max(0, width - |offset|) / width)) where the fraction lies
\* on a half; the value is reported when it differs from the stored one; with
\* width 0 the previous value is kept and nothing is emitted.
C26_ProgressOfRemaining ==
    /\ (Refreshed /\ props.onSwipeProgress /\ offsetWidth # 0)
         => /\ this.previousSwipeDistancePercent
                   = ProgressOfRemaining(this.left, offsetWidth)
            /\ fired.onSwipeProgress = 1 => progressArg = this.previousSwipeDistancePercent
    /\ NoProgressAtWidthZero

\* a refresh at offset 1 on an item 8 wide: 100 * 7 / 8 = 87.5 rounds to 88,
\* the progress reported is 12 and not round(12.5) = 13
C26_Witness ==
    /\ Refreshed
    /\ offsetWidth = 8
    /\ this.left = 1
    /\ fired.onSwipeProgress = 1
    /\ progressArg = 12
    /\ ProgressOfTravelled(this.left, offsetWidth) = 13

OtherPanel(name) == IF name = "contentLeft" THEN "contentRight" ELSE "contentLeft"

\* C27: on each executed refresh the opacity of the revealed panel becomes
\* min(1, |offset| / 100) to two decimals, and whenever the refresh writes the
\* revealed panel's opacity with a value below 1 it sets the opacity of the
\* opposite panel, if there is one, to 0.
C27_RevealedOpacity ==
    /\ Refreshed
         => Val(this[fired.shown]).opacity = Min(100, Abs(this.left))
    /\ (Refreshed /\ fired.faded # "none")
         => /\ fired.faded = fired.shown
            /\ Val(this[fired.shown]).opacity < 100
            /\ PanelHidden(this[OtherPanel(fired.shown)])

\* a refresh at offset -21 after one at +21: the left panel is written with
\* 0.21 and the right panel, shown before, is set to 0
C27_Witness ==
    /\ Refreshed
    /\ BothActions
    /\ this.left = 0 - 21
    /\ fired.faded = "contentLeft"
    /\ Val(this.contentLeft).opacity = 21
    /\ Val(this.contentRight).opacity = 0
    /\ progressArg = 52
    /\ fired.onSwipeProgress = 0

\* C28: a refresh that executes applies the offset that is current when it
\* runs, clamped for a one-sided item, and that offset is the one of the most
\* recent move the gesture processed, also when the move arrived while the
\* refresh was already requested: no mouse move and no cancelable touch move
\* of a horizontal gesture leaves an offset other than its own travel.
C28_LatestOffsetApplied ==
    [][/\ \A pt \in MovePoints :
            (/\ HeldHorizontal
             /\ lastOp' \in MoveOps
             /\ this'.left # TravelX(pt))
                => ~(\/ MouseMoveAt(pt, TRUE)
                     \/ MouseMoveAt(pt, FALSE)
                     \/ TouchMoveAt(pt, TRUE))
       /\ (lastOp' = "frame" /\ fired'.shown # "none")
            => /\ this'.left = DisplayedOffset(this.left)
               /\ this'.listElement.transform = DisplayedOffset(this.left)
      ]_vars

\* a refresh that ran after a move had changed the offset behind its request
C28_Witness ==
    /\ Refreshed
    /\ fired.stale
    /\ this.left = 0 - 21
    /\ this.listElement.transform = 0 - 21

\* C29: a touch move that is not cancelable still classifies the direction
\* (and onSwipeStart fires when it classifies a horizontal one), but it leaves
\* the offset unchanged, calls scheduleUpdatePosition not at all and neither
\* prevents the default nor stops the propagation of the event, also when the
\* gesture is classified horizontal.
C29_NonCancelableTouchMove ==
    [][\A pt \in MovePoints :
         (/\ pointer = "touch"
          /\ lastOp' = "touchmove"
          /\ this.dragStartPoint # NoPoint
          /\ TouchMoveAt(pt, FALSE)) =>
            /\ this'.left = this.left
            /\ frameRequests' = frameRequests
            /\ this'.requestedAnimationFrame = this.requestedAnimationFrame
            /\ fired'.coalesced = 0
            /\ ~fired'.preventDefault
            /\ ~fired'.stopPropagation
            /\ (/\ this.dragDirection = DragDirection.UNKNOWN
                /\ Leftward(pt)
                /\ IsDefined(props.swipeLeft)
                /\ Abs(TravelX(pt)) > SwipeStartDistance)
                 => /\ this'.dragDirection = DragDirection.LEFT
                    /\ (props.onSwipeStart /\ ~props.blockSwipe)
                         => fired'.onSwipeStart = 1
            /\ (/\ this.dragDirection = DragDirection.UNKNOWN
                /\ Rightward(pt)
                /\ IsDefined(props.swipeRight)
                /\ Abs(TravelX(pt)) > SwipeStartDistance)
                 => /\ this'.dragDirection = DragDirection.RIGHT
                    /\ (props.onSwipeStart /\ ~props.blockSwipe)
                         => fired'.onSwipeStart = 1]_vars

\* a touch move that classified the gesture as Left and fired onSwipeStart,
\* and left the offset at 0 without preventing the default
C29_Witness ==
    /\ lastOp = "touchmove"
    /\ this.dragDirection = DragDirection.LEFT
    /\ fired.onSwipeStart = 1
    /\ this.left = 0
    /\ ~fired.preventDefault
    /\ ~this.requestedAnimationFrame

\* C30: in every reachable state at most one of the two revealed panels has a
\* non-zero opacity, whatever the moves and refreshes were (a panel whose
\* opacity was never written counts as not shown).
C30_OnePanelVisible ==
    ~(/\ PanelOpacity(this.contentLeft) > 0
      /\ PanelOpacity(this.contentRight) > 0)

\* C31: once the item is unmounted no callback of the caller (onSwipeStart,
\* onSwipeProgress, onSwipeEnd, an action) is invoked and neither the
\* translation nor an opacity is written, also when the unmount falls in the
\* middle of a mouse drag and mousemove and mouseup events reach the window
\* afterwards.
C31_SilentAfterUnmount ==
    [][~this.wrapper => (NoCallback' /\ ~fired'.thrown /\ Visual' = Visual)]_vars

\* C32: onSwipeStart and onSwipeEnd alternate strictly on one item:
\* onSwipeStart is never called while an earlier onSwipeStart still waits for
\* its onSwipeEnd, and onSwipeEnd is called only after an onSwipeStart of the
\* same gesture that has had no onSwipeEnd yet; for every interleaving of
\* mouse and touch events, a second start without an end before it included,
\* and with blockSwipe changing between events.
C32_StartEndAlternate ==
    [][/\ fired'.onSwipeStart > 0 => ~swipeOpen
       /\ fired'.onSwipeEnd > 0 => (swipeOpen /\ gestureStarts >= 1)
       /\ fired'.onSwipeStart + fired'.onSwipeEnd <= 1]_vars

\* the gesture is over and its state is back at the unset values
AtRest == pointer = "none" /\ GestureReset

\* C33: a frame callback that runs after the gesture has ended, with the
\* gesture state already reset, changes neither the translation and class of
\* the content nor the opacity of a panel and reports no progress: what the
\* release left on screen (the return to rest or the removal) stays.
C33_RefreshAfterRelease ==
    [][(AtRest /\ lastOp' = "frame")
          => /\ Visual' = Visual
             /\ this'.listElement = this.listElement
             /\ this'.contentLeft = this.contentLeft
             /\ this'.contentRight = this.contentRight
             /\ fired'.onSwipeProgress = 0
             /\ fired'.shown = "none"
             /\ progressArg' = progressArg]_vars

\* the refresh requested during a gesture ran more than a frame interval
\* after its start and after the release had removed the item to the left
C33_Witness ==
    /\ lastOp = "frame"
    /\ AtRest
    /\ MoreThanFrameInterval(elapsed)
    /\ this.listElement.className = ClassContentRemove
    /\ this.listElement.transform = 0 - offsetWidth

\* C34: the start thresholds in effect are the configured values whenever
\* values are configured, a configured 0 included (then any displacement other
\* than 0 can classify), in the way the configured trigger ratio is used as
\* given; the default 10 applies only when nothing is configured.
C34_ConfiguredThresholds ==
    /\ dragHorizontalDirectionThreshold = Configured(props.swipeStartThreshold, 10)
    /\ dragVerticalDirectionThreshold = Configured(props.scrollStartThreshold, 10)
    /\ threshold = Configured(props.threshold, <<1, 2>>)

\* the callbacks the last dispatch invoked, in each of the two components
Callbacks(f) ==
    <<f.onSwipeStart, f.swipeLeftAction, f.swipeRightAction, f.onSwipeEnd>>

\* C35: SwipeableListItem2 handles a gesture as the class component does: for
\* the same configuration and the same start, move, refresh and end events
\* its handlers see a gesture in progress after a drag start, every dispatch
\* invokes the same callbacks (onSwipeStart, action, onSwipeEnd) in both, and
\* its gesture state is at the unset values after a drag end as it is after a
\* drag start's reset.
C35_SameGestureHandling ==
    /\ Callbacks(item2.fired) = Callbacks(fired)
    /\ item2.fired.thrown = fired.thrown
    /\ lastOp \in StartOps
         => (Item2_dragStartedWithinItem(item2) <=> this.dragStartPoint # NoPoint)
    /\ lastOp \in EndOps
         => /\ (item2.dragStartPoint = NoPoint) <=> (this.dragStartPoint = NoPoint)
            /\ item2.dragDirection = this.dragDirection

====
